---- MODULE Spec2Model ----
(***************************************************************************)
(* Model of the scalable-chat server: the socket.io ingress handler and    *)
(* the Redis subscriber of SocketService, and the Kafka producer and       *)
(* consumer of services/kafka.ts.                                          *)
(*                                                                         *)
(* Strings are sequences of one-character strings, so that JSON            *)
(* serialisation and Buffer encoding are real conversions.                 *)
(***************************************************************************)
EXTENDS Integers, Sequences, FiniteSets, TLC

\* ------------------------------------------------------------------ bounds
MaxSubmit == 2      \* client submissions ('event:message') over all instances
MaxProduce == 2     \* produceMessage calls
MaxTombstone == 1   \* null-valued records appended by other producers
MaxFail == 2        \* store create calls that throw
NumInstances == 2   \* server instances sharing the bus
NumPartitions == 2  \* partitions of topic MESSAGES
TickMs == 30000     \* milliseconds of one clock tick
MaxClients == 2
MaxInputs == 3      \* submissions, produceMessage calls and null records in all

\* ------------------------------------------------------- program constants
BackoffMs == 60000

Instances == 1..NumInstances
Partitions == 0..(NumPartitions - 1)
BackoffTicks == BackoffMs \div TickMs

\* The texts clients send: one plain, one that needs JSON escaping.
Texts == { <<"a">>, <<"\"">> }

\* ------------------------------------------------- JSON.stringify / parse
RECURSIVE EscapeSeq(_)
EscapeSeq(s) ==
  IF s = <<>> THEN <<>>
  ELSE LET c == Head(s)
       IN (IF c = "\"" \/ c = "\\" THEN <<"\\", c>> ELSE <<c>>)
          \o EscapeSeq(Tail(s))

JsonPrefix == <<"{", "\"", "m", "e", "s", "s", "a", "g", "e", "\"", ":", "\"">>
JsonSuffix == <<"\"", "}">>

\* Stringify that writes the text between the quotes as it is.
StringifyRaw(m) == JsonPrefix \o m \o JsonSuffix

\* JSON.stringify({ message })
Stringify(m) == JsonPrefix \o EscapeSeq(m) \o JsonSuffix

\* Body of a JSON string literal: [ok, s]; ok = FALSE when JSON.parse throws.
RECURSIVE UnescapeSeq(_)
UnescapeSeq(s) ==
  IF s = <<>> THEN [ok |-> TRUE, s |-> <<>>]
  ELSE IF Head(s) = "\""
       THEN [ok |-> FALSE, s |-> <<>>]
  ELSE IF Head(s) = "\\"
       THEN IF Len(s) < 2 \/ ~(s[2] = "\"" \/ s[2] = "\\")
            THEN [ok |-> FALSE, s |-> <<>>]
            ELSE LET r == UnescapeSeq(SubSeq(s, 3, Len(s)))
                 IN [ok |-> r.ok, s |-> IF r.ok THEN <<s[2]>> \o r.s ELSE <<>>]
  ELSE LET r == UnescapeSeq(Tail(s))
       IN [ok |-> r.ok, s |-> IF r.ok THEN <<Head(s)>> \o r.s ELSE <<>>]

\* JSON.parse(message), for the payloads the bus can carry
Parse(raw) ==
  LET n == Len(raw)
      np == Len(JsonPrefix)
      ns == Len(JsonSuffix)
  IN IF n < np + ns
        \/ SubSeq(raw, 1, np) # JsonPrefix
        \/ SubSeq(raw, n - ns + 1, n) # JsonSuffix
     THEN [ok |-> FALSE, message |-> <<>>]
     ELSE LET r == UnescapeSeq(SubSeq(raw, np + 1, n - ns))
          IN [ok |-> r.ok, message |-> r.s]

\* ------------------------------------------- Buffer encoding of log values
CharCode == [c \in {"a", "\"", "\\"} |-> CASE c = "a" -> 97
                                             [] c = "\"" -> 34
                                             [] c = "\\" -> 92]
CodeChar(b) == CHOOSE c \in DOMAIN CharCode : CharCode[c] = b

\* the producer's encoding of a string value
Encode(m) == [i \in 1..Len(m) |-> CharCode[m[i]]]
\* message.value.toString()
BufToString(bytes) == [i \in 1..Len(bytes) |-> CodeChar(bytes[i])]

NullValue == [isNull |-> TRUE, bytes |-> <<>>]
BufValue(m) == [isNull |-> FALSE, bytes |-> Encode(m)]

VARIABLES
  clients,    \* per instance: sockets connected to its io server
  relay,      \* event:message handler invocations: [inst, text, raw, pc,
              \*   paused, down (the consumer's state then)]
  busLog,     \* the PUBLISHes Redis executed, in order (indices into relay)
  busQ,       \* per instance: [channel, message] pushed to its subscriber
  emitted,    \* per instance: payloads emitted to local clients ('message')
  producer,   \* the module-level producer singleton: 0 (null) or its id
  nProducers, \* producers created by kafka.producer()
  calls,      \* produceMessage calls: [msg, pc, prod, p, off]; p, off:
              \*   where its record was appended
  log,        \* topic MESSAGES: per partition the records' values
  cursor,     \* per partition: next offset the consumer group reads
  fetched,    \* batches of the last fetch not yet handed over: [p, next, to]
  pc,         \* the consumer: "starting" (init awaits startMessageConsumer),
              \*   "down" (the start was rejected), and once it runs, where
              \*   eachMessage is: "idle" or "creating" (awaiting create)
  cur,        \* the record eachMessage is handling: [p, off]
  paused,     \* the partitions of topic MESSAGES paused on the consumer
  timers,     \* pending setTimeout callbacks: remaining ticks
  store,      \* rows of the messages table
  creates,    \* history of message.create calls: [p, off, text, res, paused]
  nFail,      \* create calls that threw so far
  nTomb,      \* null-valued records appended so far
  fault       \* per instance: "ok", "rejected" (an unhandled rejection was
              \*   raised) or "exited" (the process terminated on it)

vars == <<clients, relay, busLog, busQ, emitted, producer, nProducers, calls, log,
          cursor, fetched, pc, cur, paused, timers, store, creates, nFail,
          nTomb, fault>>

NoCur == [p |-> 0, off |-> 0]

\* inputs the environment has made so far
Inputs == Len(relay) + Len(calls) + nTomb

\* failures injected so far: creates that threw, sends and publishes that
\* were rejected
Faults ==
  nFail + Cardinality({c \in DOMAIN calls : calls[c].pc = "failed"})
        + Cardinality({k \in DOMAIN relay : relay[k].pc = "failed"})

\* init() has run and one client is connected to every instance.
Init ==
  /\ clients = [i \in Instances |-> 1]
  /\ relay = <<>>
  /\ busLog = <<>>
  /\ busQ = [i \in Instances |-> <<>>]
  /\ emitted = [i \in Instances |-> <<>>]
  /\ producer = 0
  /\ nProducers = 0
  /\ calls = <<>>
  /\ log = [p \in Partitions |-> <<>>]
  /\ cursor = [p \in Partitions |-> 0]
  /\ fetched = <<>>
  /\ pc = "idle"
  /\ cur = NoCur
  /\ paused = {}
  /\ timers = <<>>
  /\ store = <<>>
  /\ creates = <<>>
  /\ nFail = 0
  /\ nTomb = 0
  /\ fault = [i \in Instances |-> "ok"]

\* ---------------------------------------------------------- SocketService
Channel == "MESSAGES"

\* the channels an instance's sub connection is subscribed to
Subscribed == {Channel}

\* io.on("connection"): a socket connects to instance i and gets its
\* event:message handler.
Connect(i) ==
  /\ fault[i] # "exited"
  /\ clients[i] < MaxClients
  /\ clients' = [clients EXCEPT ![i] = @ + 1]
  /\ UNCHANGED <<fault, relay, busLog, busQ, emitted, producer, nProducers, calls,
                 log, cursor, fetched, pc, cur, paused, timers, store, creates,
                 nFail, nTomb>>

\* a socket of instance i disconnects
Disconnect(i) ==
  /\ clients[i] > 0
  /\ clients' = [clients EXCEPT ![i] = @ - 1]
  /\ UNCHANGED <<fault, relay, busLog, busQ, emitted, producer, nProducers, calls,
                 log, cursor, fetched, pc, cur, paused, timers, store, creates,
                 nFail, nTomb>>

\* Submit with a local echo: the handler also emits to its own clients.
SubmitEcho(i, m) ==
  /\ fault[i] # "exited"
  /\ clients[i] > 0
  /\ Len(relay) < MaxSubmit
  /\ Inputs < MaxInputs
  /\ relay' = Append(relay, [inst |-> i, text |-> m, raw |-> Stringify(m),
                             pc |-> "publishing", paused |-> paused # {},
                             channel |-> Channel,
                             down |-> pc = "down"])
  /\ emitted' = [emitted EXCEPT ![i] = Append(@, [message |-> m])]
  /\ UNCHANGED <<clients, fault, busLog, busQ, producer, nProducers, calls, log,
                 cursor, fetched, pc, cur, paused, timers, store, creates,
                 nFail, nTomb>>

\* socket.on("event:message"): the handler up to its await; the PUBLISH
\* command with the serialised payload is on the pub connection.
Submit(i, m) ==
  /\ fault[i] # "exited"
  /\ clients[i] > 0
  /\ Len(relay) < MaxSubmit
  /\ Inputs < MaxInputs
  /\ relay' = Append(relay, [inst |-> i, text |-> m, raw |-> Stringify(m),
                             pc |-> "publishing", paused |-> paused # {},
                             channel |-> Channel,
                             down |-> pc = "down"])
  /\ UNCHANGED <<clients, fault, busLog, busQ, emitted, producer, nProducers, calls, log,
                 cursor, fetched, pc, cur, paused, timers, store, creates,
                 nFail, nTomb>>

\* Redis executes the commands of one connection in the order sent.
FirstPublishing(k) ==
  /\ relay[k].pc = "publishing"
  /\ \A j \in 1..(k - 1) :
       relay[j].inst = relay[k].inst => relay[j].pc # "publishing"

\* Publish that leaves out the subscriber of the publishing instance.
PublishOthers(k) ==
  /\ k \in DOMAIN relay
  /\ FirstPublishing(k)
  /\ busLog' = Append(busLog, k)
  /\ busQ' = [j \in Instances |->
                IF \/ j = relay[k].inst
                   \/ fault[j] = "exited"
                   \/ relay[k].channel \notin Subscribed
                THEN busQ[j]
                ELSE Append(busQ[j],
                            [channel |-> relay[k].channel,
                             message |-> relay[k].raw])]
  /\ relay' = [relay EXCEPT ![k].pc = "done"]
  /\ UNCHANGED <<clients, fault, emitted, producer, nProducers, calls, log, cursor, fetched,
                 pc, cur, paused, timers, store, creates, nFail, nTomb>>

\* Publish that waits for the append: it is held back while a produceMessage
\* call for the same text has been rejected.
PublishAfterAppend(k) ==
  /\ k \in DOMAIN relay
  /\ FirstPublishing(k)
  /\ \A c \in DOMAIN calls :
       calls[c].msg = relay[k].text => calls[c].pc # "failed"
  /\ busLog' = Append(busLog, k)
  /\ busQ' = [j \in Instances |->
                IF fault[j] = "exited" \/ relay[k].channel \notin Subscribed
                THEN busQ[j]
                ELSE Append(busQ[j],
                            [channel |-> relay[k].channel,
                             message |-> relay[k].raw])]
  /\ relay' = [relay EXCEPT ![k].pc = "done"]
  /\ UNCHANGED <<clients, fault, emitted, producer, nProducers, calls, log, cursor, fetched,
                 pc, cur, paused, timers, store, creates, nFail, nTomb>>

\* Redis executes PUBLISH: every subscriber of the channel gets the payload,
\* and the handler's await returns.
Publish(k) ==
  /\ k \in DOMAIN relay
  /\ FirstPublishing(k)
  /\ busLog' = Append(busLog, k)
  /\ busQ' = [j \in Instances |->
                IF fault[j] = "exited" \/ relay[k].channel \notin Subscribed
                THEN busQ[j]
                ELSE Append(busQ[j],
                            [channel |-> relay[k].channel,
                             message |-> relay[k].raw])]
  /\ relay' = [relay EXCEPT ![k].pc = "done"]
  /\ UNCHANGED <<clients, fault, emitted, producer, nProducers, calls, log, cursor, fetched,
                 pc, cur, paused, timers, store, creates, nFail, nTomb>>

\* pub.publish rejects (Redis unreachable): the handler's await throws and
\* the handler ends there.
PublishFails(k) ==
  /\ k \in DOMAIN relay
  /\ FirstPublishing(k)
  /\ Faults < MaxFail
  /\ relay' = [relay EXCEPT ![k].pc = "failed"]
  /\ UNCHANGED <<clients, fault, busLog, busQ, emitted, producer, nProducers, calls, log,
                 cursor, fetched, pc, cur, paused, timers, store, creates,
                 nFail, nTomb>>

\* a payload JSON.parse throws on
Malformed == <<"{">>

\* Another client of the same Redis publishes on channel MESSAGES: the
\* channel is open to every connection, not only to the instances' pub.
ForeignPublish(raw) ==
  /\ Len(relay) < MaxSubmit
  /\ Inputs < MaxInputs
  /\ relay' = Append(relay, [inst |-> 0, text |-> <<>>, raw |-> raw,
                             pc |-> "publishing", paused |-> paused # {},
                             channel |-> Channel,
                             down |-> pc = "down"])
  /\ UNCHANGED <<clients, fault, busLog, busQ, emitted, producer, nProducers, calls, log,
                 cursor, fetched, pc, cur, paused, timers, store, creates,
                 nFail, nTomb>>

\* a channel no instance subscribes to
OtherChannel == "OTHER"

\* Another client of the same Redis publishes on another channel.
ForeignPublishElsewhere(raw) ==
  /\ Len(relay) < MaxSubmit
  /\ Inputs < MaxInputs
  /\ relay' = Append(relay, [inst |-> 0, text |-> <<>>, raw |-> raw,
                             pc |-> "publishing", paused |-> paused # {},
                             channel |-> OtherChannel,
                             down |-> pc = "down"])
  /\ UNCHANGED <<clients, fault, busLog, busQ, emitted, producer, nProducers,
                 calls, log, cursor, fetched, pc, cur, paused, timers, store,
                 creates, nFail, nTomb>>

\* onBusMessage registered inside the connection handler: one listener, and
\* so one emit, for every socket connected.
onBusMessagePerClient(i) ==
  /\ fault[i] # "exited"
  /\ busQ[i] # <<>>
  /\ LET d == Head(busQ[i])
         parsed == Parse(d.message)
     IN IF d.channel # "MESSAGES"
        THEN UNCHANGED <<emitted, fault>>
        ELSE IF parsed.ok
        THEN /\ emitted' = [emitted EXCEPT
                              ![i] = @ \o [n \in 1..clients[i] |->
                                             [message |-> parsed.message]]]
             /\ UNCHANGED fault
        ELSE /\ \E f \in {"rejected", "exited"} :
                  fault' = [fault EXCEPT ![i] = f]
             /\ UNCHANGED emitted
  /\ busQ' = [busQ EXCEPT ![i] = Tail(@)]
  /\ UNCHANGED <<clients, relay, busLog, producer, nProducers, calls, log,
                 cursor, fetched, pc, cur, paused, timers, store, creates,
                 nFail, nTomb>>

\* onBusMessage that waits for the consumer to be running.
onBusMessageGated(i) ==
  /\ fault[i] # "exited"
  /\ busQ[i] # <<>>
  /\ paused = {}
  /\ LET d == Head(busQ[i])
         parsed == Parse(d.message)
     IN IF d.channel # "MESSAGES"
        THEN UNCHANGED <<emitted, fault>>
        ELSE IF parsed.ok
        THEN /\ emitted' = [emitted EXCEPT
                              ![i] = Append(@, [message |-> parsed.message])]
             /\ UNCHANGED fault
        ELSE /\ \E f \in {"rejected", "exited"} :
                  fault' = [fault EXCEPT ![i] = f]
             /\ UNCHANGED emitted
  /\ busQ' = [busQ EXCEPT ![i] = Tail(@)]
  /\ UNCHANGED <<clients, relay, busLog, producer, nProducers, calls, log, cursor,
                 fetched, pc, cur, paused, timers, store, creates, nFail,
                 nTomb>>

\* sub.on("message", async (channel, message) => ...) on instance i.
\* JSON.parse is not guarded: when it throws, the async callback's promise
\* rejects with nobody handling it, which terminates the process unless
\* it runs with unhandled rejections tolerated.
onBusMessage(i) ==
  /\ fault[i] # "exited"
  /\ busQ[i] # <<>>
  /\ LET d == Head(busQ[i])
         parsed == Parse(d.message)
     IN IF d.channel # "MESSAGES"
        THEN UNCHANGED <<emitted, fault>>
        ELSE IF parsed.ok
        THEN /\ emitted' = [emitted EXCEPT
                              ![i] = Append(@, [message |-> parsed.message])]
             /\ UNCHANGED fault
        ELSE /\ \E f \in {"rejected", "exited"} :
                  fault' = [fault EXCEPT ![i] = f]
             /\ UNCHANGED emitted
  /\ busQ' = [busQ EXCEPT ![i] = Tail(@)]
  /\ UNCHANGED <<clients, relay, busLog, producer, nProducers, calls, log, cursor,
                 fetched, pc, cur, paused, timers, store, creates, nFail,
                 nTomb>>

\* ------------------------------------------------------ kafka.ts producer
\* produceMessage(message) up to the first await that suspends it:
\* createProducer returns the singleton, or creates a producer of its own
\* and awaits its connect.
produceMessage(m) ==
  /\ Len(calls) < MaxProduce
  /\ Inputs < MaxInputs
  /\ IF producer # 0
     THEN /\ calls' = Append(calls, [msg |-> m, pc |-> "send", prod |-> producer,
                                     p |-> 0, off |-> 0])
          /\ UNCHANGED nProducers
     ELSE /\ nProducers' = nProducers + 1
          /\ calls' = Append(calls, [msg |-> m, pc |-> "connecting",
                                     prod |-> nProducers + 1,
                                     p |-> 0, off |-> 0])
  /\ UNCHANGED <<clients, fault, relay, busLog, busQ, emitted, producer, log, cursor, fetched,
                 pc, cur, paused, timers, store, creates, nFail, nTomb>>

\* createProducer after `await _producer.connect()`: the singleton is set
\* and produceMessage goes on to producer.send.
createProducer(c) ==
  /\ c \in DOMAIN calls
  /\ calls[c].pc = "connecting"
  /\ producer' = calls[c].prod
  /\ calls' = [calls EXCEPT ![c].pc = "send"]
  /\ UNCHANGED <<clients, fault, relay, busLog, busQ, emitted, nProducers, log, cursor,
                 fetched, pc, cur, paused, timers, store, creates, nFail,
                 nTomb>>

\* Sends of one producer reach the broker in the order they were issued.
FirstSending(c) ==
  /\ calls[c].pc = "send"
  /\ \A j \in 1..(c - 1) :
       calls[j].prod = calls[c].prod => calls[j].pc \in {"done", "failed"}

\* producer.send completes: the record is appended to the partition the
\* key `message-${Date.now()}` hashes to.
send(c, p) ==
  /\ c \in DOMAIN calls
  /\ FirstSending(c)
  /\ log' = [log EXCEPT ![p] = Append(@, BufValue(calls[c].msg))]
  /\ calls' = [calls EXCEPT ![c].pc = "done", ![c].p = p,
                            ![c].off = Len(log[p])]
  /\ UNCHANGED <<clients, fault, relay, busLog, busQ, emitted, producer, nProducers, cursor,
                 fetched, pc, cur, paused, timers, store, creates, nFail,
                 nTomb>>

\* producer.send rejects (the client's retries are exhausted): produceMessage
\* rejects and nothing is appended.
sendRejected(c) ==
  /\ c \in DOMAIN calls
  /\ FirstSending(c)
  /\ Faults < MaxFail
  /\ calls' = [calls EXCEPT ![c].pc = "failed"]
  /\ UNCHANGED <<clients, fault, relay, busLog, busQ, emitted, producer, nProducers, log,
                 cursor, fetched, pc, cur, paused, timers, store, creates,
                 nFail, nTomb>>

\* A record with a null value on the topic (message.value is Buffer | null).
Tombstone(p) ==
  /\ nTomb < MaxTombstone
  /\ Inputs < MaxInputs
  /\ nTomb' = nTomb + 1
  /\ log' = [log EXCEPT ![p] = Append(@, NullValue)]
  /\ UNCHANGED <<clients, fault, relay, busLog, busQ, emitted, producer, nProducers, calls,
                 cursor, fetched, pc, cur, paused, timers, store, creates,
                 nFail>>

\* ------------------------------------------------------ kafka.ts consumer
\* The orders in which one fetch response can carry batches of partitions.
BatchOrders ==
  { s \in UNION { [1..n -> Partitions] : n \in 1..NumPartitions } :
      \A i, j \in DOMAIN s : i # j => s[i] # s[j] }

\* consumer.run's fetch loop: one fetch when nothing is left to hand over.
\* A paused topic is not fetched; the response carries a batch for some of
\* the partitions that have unread records.
fetch(bs) ==
  /\ pc = "idle"
  /\ fetched = <<>>
  /\ \A k \in DOMAIN bs : bs[k] \notin paused
  /\ \A k \in DOMAIN bs : cursor[bs[k]] < Len(log[bs[k]])
  /\ fetched' = [k \in DOMAIN bs |->
                   [p |-> bs[k], next |-> cursor[bs[k]], to |-> Len(log[bs[k]])]]
  /\ UNCHANGED <<clients, fault, relay, busLog, busQ, emitted, producer, nProducers, calls,
                 log, cursor, pc, cur, paused, timers, store, creates, nFail,
                 nTomb>>

\* consumer.run after eachMessage has returned for offset off of partition p:
\* the offset is resolved, and the rest of the batch is dropped when the
\* topic is paused by then.
Resolved(p, off, isPaused) ==
  /\ cursor' = [cursor EXCEPT ![p] = off + 1]
  /\ fetched' = IF isPaused \/ off + 1 >= Head(fetched).to
                THEN Tail(fetched)
                ELSE [fetched EXCEPT ![1].next = off + 1]

\* eachMessage that takes the value of the last record of the batch.
eachMessageLast ==
  /\ pc = "idle"
  /\ fetched # <<>>
  /\ LET b == Head(fetched)
         v == log[b.p][b.to]
     IN IF v.isNull
        THEN /\ Resolved(b.p, b.next, b.p \in paused)
             /\ UNCHANGED <<pc, cur, creates>>
        ELSE /\ pc' = "creating"
             /\ cur' = [p |-> b.p, off |-> b.next]
             /\ creates' = Append(creates,
                  [p |-> b.p, off |-> b.next, text |-> BufToString(v.bytes),
                   res |-> "pending", paused |-> b.p \in paused,
                   timers |-> Len(timers)])
             /\ UNCHANGED <<cursor, fetched>>
  /\ UNCHANGED <<clients, fault, relay, busLog, busQ, emitted, producer, nProducers, calls,
                 log, paused, timers, store, nFail, nTomb>>

\* eachMessage without the test of message.value: a null value is written as
\* the empty text.
eachMessageUnguarded ==
  /\ pc = "idle"
  /\ fetched # <<>>
  /\ LET b == Head(fetched)
         v == log[b.p][b.next + 1]
     IN /\ pc' = "creating"
        /\ cur' = [p |-> b.p, off |-> b.next]
        /\ creates' = Append(creates,
             [p |-> b.p, off |-> b.next, text |-> BufToString(v.bytes),
              res |-> "pending", paused |-> b.p \in paused,
              timers |-> Len(timers)])
        /\ UNCHANGED <<cursor, fetched>>
  /\ UNCHANGED <<clients, fault, relay, busLog, busQ, emitted, producer, nProducers, calls,
                 log, paused, timers, store, nFail, nTomb>>

\* eachMessage({ topic, partition, message }) up to `await ...create(...)`;
\* for a null value the handler returns at once.
eachMessage ==
  /\ pc = "idle"
  /\ fetched # <<>>
  /\ LET b == Head(fetched)
         v == log[b.p][b.next + 1]
     IN IF v.isNull
        THEN /\ Resolved(b.p, b.next, b.p \in paused)
             /\ UNCHANGED <<pc, cur, creates>>
        ELSE /\ pc' = "creating"
             /\ cur' = [p |-> b.p, off |-> b.next]
             /\ creates' = Append(creates,
                  [p |-> b.p, off |-> b.next, text |-> BufToString(v.bytes),
                   res |-> "pending", paused |-> b.p \in paused,
                   timers |-> Len(timers)])
             /\ UNCHANGED <<cursor, fetched>>
  /\ UNCHANGED <<clients, fault, relay, busLog, busQ, emitted, producer, nProducers, calls,
                 log, paused, timers, store, nFail, nTomb>>

\* prismaClient.message.create resolves: the row is written, the handler
\* logs and returns.
createResolved ==
  /\ pc = "creating"
  /\ store' = Append(store, [text |-> creates[Len(creates)].text])
  /\ creates' = [creates EXCEPT ![Len(creates)].res = "ok"]
  /\ pc' = "idle"
  /\ cur' = NoCur
  /\ Resolved(cur.p, cur.off, cur.p \in paused)
  /\ UNCHANGED <<clients, fault, relay, busLog, busQ, emitted, producer, nProducers, calls,
                 log, paused, timers, nFail, nTomb>>

\* createRejected that pauses only the partition of the failed record.
createRejectedPartition ==
  /\ pc = "creating"
  /\ Faults < MaxFail
  /\ nFail' = nFail + 1
  /\ creates' = [creates EXCEPT ![Len(creates)].res = "err"]
  /\ paused' = paused \cup {cur.p}
  /\ timers' = Append(timers, BackoffTicks)
  /\ pc' = "idle"
  /\ cur' = NoCur
  /\ Resolved(cur.p, cur.off, TRUE)
  /\ UNCHANGED <<clients, fault, relay, busLog, busQ, emitted, producer, nProducers, calls,
                 log, store, nTomb>>

\* createRejected that pauses and schedules no resume.
createRejectedNoTimer ==
  /\ pc = "creating"
  /\ Faults < MaxFail
  /\ nFail' = nFail + 1
  /\ creates' = [creates EXCEPT ![Len(creates)].res = "err"]
  /\ paused' = Partitions
  /\ pc' = "idle"
  /\ cur' = NoCur
  /\ Resolved(cur.p, cur.off, TRUE)
  /\ UNCHANGED <<clients, fault, relay, busLog, busQ, emitted, producer, nProducers, calls,
                 log, store, nTomb, timers>>

\* createRejected that sits in the handler until the backoff has elapsed.
createRejectedBlocking ==
  /\ pc = "creating"
  /\ Faults < MaxFail
  /\ nFail' = nFail + 1
  /\ creates' = [creates EXCEPT ![Len(creates)].res = "err"]
  /\ paused' = Partitions
  /\ timers' = Append(timers, BackoffTicks)
  /\ pc' = "backoff"
  /\ UNCHANGED <<clients, fault, relay, busLog, busQ, emitted, producer, nProducers, calls,
                 log, store, nTomb, cur, cursor, fetched>>

\* prismaClient.message.create throws: the catch block pauses the topic and
\* schedules the resume; it does not rethrow, so the handler returns normally.
createRejected ==
  /\ pc = "creating"
  /\ Faults < MaxFail
  /\ nFail' = nFail + 1
  /\ creates' = [creates EXCEPT ![Len(creates)].res = "err"]
  /\ paused' = Partitions
  /\ timers' = Append(timers, BackoffTicks)
  /\ pc' = "idle"
  /\ cur' = NoCur
  /\ Resolved(cur.p, cur.off, TRUE)
  /\ UNCHANGED <<clients, fault, relay, busLog, busQ, emitted, producer, nProducers, calls,
                 log, store, nTomb>>

\* the setTimeout callback: consumer.resume([{ topic: "MESSAGES" }])
resumeTimer ==
  /\ timers # <<>>
  /\ Head(timers) = 0
  /\ timers' = Tail(timers)
  /\ paused' = {}
  /\ UNCHANGED <<clients, fault, relay, busLog, busQ, emitted, producer, nProducers, calls,
                 log, cursor, fetched, pc, cur, store, creates, nFail, nTomb>>

\* Time passes while a timer is pending and none is due.
Tick ==
  /\ timers # <<>>
  /\ \A k \in DOMAIN timers : timers[k] > 0
  /\ timers' = [k \in DOMAIN timers |-> timers[k] - 1]
  /\ UNCHANGED <<clients, fault, relay, busLog, busQ, emitted, producer, nProducers, calls,
                 log, cursor, fetched, pc, cur, paused, store, creates, nFail,
                 nTomb>>

\* ---------------------------------------------------------- index.ts init
\* `await startMessageConsumer()` resolves: connect, subscribe and run have
\* succeeded and the consumer is running.
startResolved ==
  /\ pc = "starting"
  /\ pc' = "idle"
  /\ UNCHANGED <<clients, fault, relay, busLog, busQ, emitted, producer, nProducers, calls,
                 log, cursor, fetched, cur, paused, timers, store, creates,
                 nFail, nTomb>>

\* startRejected with no try/catch around the await in init: the rejection
\* of init's promise is unhandled and the process of instance i terminates.
startRejectedUncaught(i) ==
  /\ pc = "starting"
  /\ fault[i] # "exited"
  /\ pc' = "down"
  /\ fault' = [fault EXCEPT ![i] = "exited"]
  /\ UNCHANGED <<clients, relay, busLog, busQ, emitted, producer, nProducers, calls,
                 log, cursor, fetched, cur, paused, timers, store, creates,
                 nFail, nTomb>>

\* `await startMessageConsumer()` rejects in init of instance i (connect,
\* subscribe or run failed): the catch logs it and init returns; the
\* listeners set up before it stay as they are.
startRejected(i) ==
  /\ pc = "starting"
  /\ fault[i] # "exited"
  /\ pc' = "down"
  /\ UNCHANGED <<clients, fault, relay, busLog, busQ, emitted, producer, nProducers, calls,
                 log, cursor, fetched, cur, paused, timers, store, creates,
                 nFail, nTomb>>

\* ------------------------------------------------------------ specification
Next ==
  \/ \E i \in Instances, m \in Texts : Submit(i, m)
  \/ \E k \in 1..MaxSubmit : Publish(k)
  \/ \E i \in Instances : onBusMessage(i)
  \/ \E m \in Texts : produceMessage(m)
  \/ \E c \in 1..MaxProduce : createProducer(c)
  \/ \E c \in 1..MaxProduce, p \in Partitions : send(c, p)
  \/ \E p \in Partitions : Tombstone(p)
  \/ \E bs \in BatchOrders : fetch(bs)
  \/ eachMessage
  \/ createResolved
  \/ createRejected
  \/ resumeTimer
  \/ Tick

Spec == Init /\ [][Next]_vars

\* ------------------------------------------------------------------ claims
\* Record k of partition p has been written to the store by a create call
\* that completed successfully.
Written(p, k) ==
  \E i \in DOMAIN creates :
    creates[i].p = p /\ creates[i].off = k /\ creates[i].res = "ok"

NonNull(p, k) == k < Len(log[p]) /\ ~log[p][k + 1].isNull

\* create call j is the first create for its partition after create call i
NextCreateOf(i, j) ==
  /\ i < j
  /\ creates[i].p = creates[j].p
  /\ \A h \in (i + 1)..(j - 1) : creates[h].p # creates[i].p

\* C1: when create throws for the record at offset k of a partition, the
\* consumer is paused, and the next create issued for that partition is for
\* the same record k with the same payload.
C1_RetrySameRecord ==
  \A i, j \in DOMAIN creates :
    creates[i].res = "err" /\ NextCreateOf(i, j) =>
      /\ creates[j].off = creates[i].off
      /\ creates[j].text = creates[i].text

\* The consumer has nothing left to do: every produceMessage call is
\* complete, every record has been handed to eachMessage, and no pause or
\* timer is pending.
Drained ==
  /\ \A c \in DOMAIN calls : calls[c].pc = "done"
  /\ \A p \in Partitions : cursor[p] = Len(log[p])
  /\ pc = "idle" /\ fetched = <<>> /\ paused = {} /\ timers = <<>>

\* C2: no non-null record of the log is permanently skipped: once the
\* consumer has gone through the whole log, after any number of store
\* failures, every non-null record has been written to the store.
C2_NeverSkipped ==
  Drained =>
    \A p \in Partitions : \A k \in 0..(Len(log[p]) - 1) :
      NonNull(p, k) => Written(p, k)

\* C3: every non-null record at an offset below the cursor of its partition
\* has been written to the store.
C3_CursorBehindStore ==
  \A p \in Partitions : \A k \in 0..(cursor[p] - 1) :
    NonNull(p, k) => Written(p, k)

\* C4: successful creates of one partition follow offset order: when the
\* record at offset j has been written, every non-null record at a smaller
\* offset k of that partition was written before it.
C4_StoreInLogOrder ==
  \A j \in DOMAIN creates :
    creates[j].res = "ok" =>
      \A k \in 0..(creates[j].off - 1) :
        NonNull(creates[j].p, k) =>
          \E i \in 1..(j - 1) :
            /\ creates[i].p = creates[j].p
            /\ creates[i].off = k
            /\ creates[i].res = "ok"

\* C5: no create call is issued while the topic is paused or while a resume
\* timer of an earlier failure is still pending.
C5_NoCreateWhilePaused ==
  \A i \in DOMAIN creates : ~creates[i].paused /\ creates[i].timers = 0

\* C6: every submission whose handler has completed has been published on
\* the bus and has a produceMessage call, or a log record, carrying it.
C6_PublishAndAppend ==
  \A k \in DOMAIN relay :
    relay[k].pc = "done" =>
      /\ \E n \in DOMAIN busLog : busLog[n] = k
      /\ \E c \in DOMAIN calls : calls[c].msg = relay[k].text

\* Every submission is through the bus and every instance has handled it.
BusQuiet ==
  /\ \A k \in DOMAIN relay : relay[k].pc = "done"
  /\ \A i \in Instances : busQ[i] = <<>>

\* C7: once the bus and the consumer have nothing left to do, the store
\* holds a row with the text of every submission.
C7_SubmittedTextStored ==
  BusQuiet /\ Drained =>
    \A k \in DOMAIN relay : \E r \in DOMAIN store : store[r].text = relay[k].text

\* Submission k has been emitted to the clients of instance j, at the
\* position at which the bus delivered it.
Delivered(k, j) ==
  \E n \in DOMAIN busLog :
    /\ busLog[n] = k
    /\ n <= Len(emitted[j])
    /\ emitted[j][n] = [message |-> relay[k].text]

\* C8: every submission is eventually emitted to the clients of every
\* instance, in the order in which the bus delivered the submissions.
C8_FanOut ==
  \A k \in 1..MaxSubmit :
    [](k \in DOMAIN relay => <>(\A j \in Instances : Delivered(k, j)))

C8_Witness ==
  /\ Len(relay) >= 2
  /\ relay[1].inst = relay[2].inst
  /\ relay[1].text # relay[2].text
  /\ \A j \in Instances : Delivered(1, j) /\ Delivered(2, j)

\* C9: what the clients of an instance have been sent is exactly what its
\* subscriber has taken from the bus, for the originating instance as for
\* the others; the event:message handler emits nothing.
C9_OnlyBusPath ==
  \A i \in Instances :
    /\ Len(emitted[i]) = Len(busLog) - Len(busQ[i])
    /\ \A n \in DOMAIN emitted[i] :
         emitted[i][n] = [message |-> relay[busLog[n]].text]

C9_Witness ==
  \E k \in DOMAIN relay : \E j \in Instances :
    /\ j # relay[k].inst
    /\ relay[k].pc = "done"
    /\ Delivered(k, relay[k].inst)
    /\ emitted[j] = <<>>

\* C10: a message submitted while the consumer is paused, or after store
\* creates have failed, is eventually emitted to the clients of every
\* instance, whatever the consumer does or fails to do from then on.
C10_DeliveryDespitePause ==
  \A k \in 1..MaxSubmit :
    []((k \in DOMAIN relay /\ (relay[k].paused \/ paused # {} \/ nFail > 0))
         => <>(\A j \in Instances : Delivered(k, j)))

C10_Witness ==
  \E k \in DOMAIN relay :
    /\ relay[k].paused
    /\ paused # {}
    /\ \A j \in Instances : Delivered(k, j)

\* The topic retains what earlier runs appended: the server starts with one
\* record on partition 0, which the consumer reads from the beginning.
InitRetained ==
  /\ clients = [i \in Instances |-> 1]
  /\ relay = <<>>
  /\ busLog = <<>>
  /\ busQ = [i \in Instances |-> <<>>]
  /\ emitted = [i \in Instances |-> <<>>]
  /\ producer = 0
  /\ nProducers = 0
  /\ calls = <<>>
  /\ log = [p \in Partitions |-> IF p = 0 THEN <<BufValue(<<"a">>)>> ELSE <<>>]
  /\ cursor = [p \in Partitions |-> 0]
  /\ fetched = <<>>
  /\ pc = "idle"
  /\ cur = NoCur
  /\ paused = {}
  /\ timers = <<>>
  /\ store = <<>>
  /\ creates = <<>>
  /\ nFail = 0
  /\ nTomb = 0
  /\ fault = [i \in Instances |-> "ok"]

\* The bus path next to a consumer working on the retained record.
RelayNext ==
  \/ \E i \in Instances, m \in Texts : Submit(i, m)
  \/ \E k \in 1..MaxSubmit : Publish(k)
  \/ \E i \in Instances : onBusMessage(i)
  \/ \E bs \in BatchOrders : fetch(bs)
  \/ eachMessage
  \/ createResolved
  \/ createRejected
  \/ resumeTimer
  \/ Tick

\* Fairness of the bus path alone: Redis executes the commands it is sent
\* and the subscriber callback runs for what is delivered. Nothing is
\* assumed of the consumer, which may stay paused for ever.
FairBusSpec ==
  /\ InitRetained
  /\ [][RelayNext]_vars
  /\ \A k \in 1..MaxSubmit : WF_vars(Publish(k))
  /\ \A i \in Instances : WF_vars(onBusMessage(i))

\* The ingress and the producer with a bus and a log that can fail: the
\* publishes and the sends can be rejected.
AppendNext ==
  \/ \E i \in Instances, m \in Texts : Submit(i, m)
  \/ \E k \in 1..MaxSubmit : Publish(k)
  \/ \E k \in 1..MaxSubmit : PublishFails(k)
  \/ \E i \in Instances : onBusMessage(i)
  \/ \E m \in Texts : produceMessage(m)
  \/ \E c \in 1..MaxProduce : createProducer(c)
  \/ \E c \in 1..MaxProduce, p \in Partitions : send(c, p)
  \/ \E c \in 1..MaxProduce : sendRejected(c)

\* Redis executes a PUBLISH it has accepted and the subscriber callback runs;
\* nothing is assumed of the producer.
FairAppendSpec ==
  /\ Init
  /\ [][AppendNext]_vars
  /\ \A k \in 1..MaxSubmit : WF_vars(Publish(k) \/ PublishFails(k))
  /\ \A i \in Instances : WF_vars(onBusMessage(i))

C12_AppendDespiteBusFailure ==
  \A k \in DOMAIN relay :
    relay[k].pc = "failed" =>
      \E c \in DOMAIN calls : calls[c].msg = relay[k].text

\* The bus with a channel other clients can publish on.
OpenBusNext ==
  \/ \E i \in Instances, m \in Texts : Submit(i, m)
  \/ ForeignPublish(Malformed)
  \/ \E k \in 1..MaxSubmit : Publish(k)
  \/ \E i \in Instances : onBusMessage(i)
  \/ \E m \in Texts : produceMessage(m)
  \/ \E c \in 1..MaxProduce : createProducer(c)
  \/ \E c \in 1..MaxProduce, p \in Partitions : send(c, p)

OpenBusSpec == Init /\ [][OpenBusNext]_vars

\* C13: a payload on channel MESSAGES that cannot be deserialized is dropped
\* without an uncaught error being raised at any instance.
C13_MalformedTolerated == \A i \in Instances : fault[i] = "ok"


\* The durable log path alone: producer calls, the topic and the consumer.
LogNext ==
  \/ \E m \in Texts : produceMessage(m)
  \/ \E c \in 1..MaxProduce : createProducer(c)
  \/ \E c \in 1..MaxProduce, p \in Partitions : send(c, p)
  \/ \E p \in Partitions : Tombstone(p)
  \/ \E bs \in BatchOrders : fetch(bs)
  \/ eachMessage
  \/ createResolved
  \/ createRejected
  \/ resumeTimer
  \/ Tick

LogSpec == Init /\ [][LogNext]_vars

\* Time passes and a due timer's callback is run by the event loop.
FairLogSpec == LogSpec /\ WF_vars(Tick) /\ WF_vars(resumeTimer)

C15_PauseAlwaysEnds ==
  /\ paused = {}
  /\ [](paused # {} => <>(paused = {}))

C15_Witness ==
  /\ nFail = MaxFail
  /\ paused = {}
  /\ timers = <<>>


\* C16: while the backoff window of a store failure has not elapsed, the
\* consumer is paused (no resume has been issued inside the window).
C16_PausedForWholeWindow ==
  (\E k \in DOMAIN timers : timers[k] > 0) => paused # {}

\* C17: records of produceMessage calls are appended in the order of the
\* calls: of two calls whose records are on one partition the earlier call's
\* record has the lower offset.
C17_ProducerFifo ==
  \A c1, c2 \in DOMAIN calls :
    (/\ c1 < c2
     /\ calls[c1].pc = "done"
     /\ calls[c2].pc = "done"
     /\ calls[c1].p = calls[c2].p) => calls[c1].off < calls[c2].off

\* C18: on a store failure the handler pauses, schedules the resume for a
\* full backoff later and returns at once; the topic is resumed only by a
\* timer callback that has come due.
C18_ResumeTimerNonBlocking ==
  [][/\ nFail' > nFail =>
          /\ pc' = "idle"
          /\ paused' # {}
          /\ timers' = Append(timers, BackoffTicks)
     /\ (paused # {} /\ paused' = {}) =>
          /\ timers # <<>>
          /\ Head(timers) = 0
          /\ timers' = Tail(timers)
          /\ nFail' = nFail]_vars

C18_Witness ==
  /\ nFail > 0
  /\ pc = "idle"
  /\ paused # {}
  /\ timers # <<>>
  /\ timers[Len(timers)] = BackoffTicks

\* C19: every create call is for one record of the log, which has a value,
\* and its text is that value decoded, which is the text the producer sent.
C19_CreateIsOneRecord ==
  \A k \in DOMAIN creates :
    LET c == creates[k]
    IN /\ c.p \in Partitions
       /\ c.off < Len(log[c.p])
       /\ ~log[c.p][c.off + 1].isNull
       /\ c.text = BufToString(log[c.p][c.off + 1].bytes)
       /\ \E n \in DOMAIN calls :
            /\ calls[n].pc = "done"
            /\ calls[n].p = c.p
            /\ calls[n].off = c.off
            /\ calls[n].msg = c.text

C19_Witness ==
  /\ Len(creates) >= 2
  /\ creates[1].p = creates[2].p
  /\ creates[1].text # creates[2].text
  /\ nTomb > 0


\* C20: the payload published for a submitted text m is the serialisation of
\* {message: m}, it deserialises to {message: m} again, and that structure
\* is what every instance emits for it.
C20_PayloadRoundTrip ==
  /\ \A k \in DOMAIN relay :
       /\ relay[k].raw = Stringify(relay[k].text)
       /\ Parse(relay[k].raw) = [ok |-> TRUE, message |-> relay[k].text]
  /\ \A i \in Instances : \A n \in DOMAIN emitted[i] :
       /\ n \in DOMAIN busLog
       /\ emitted[i][n] = [message |-> Parse(relay[busLog[n]].raw).message]
       /\ emitted[i][n].message = relay[busLog[n]].text
  /\ \A i \in Instances : fault[i] = "ok"

C20_Witness ==
  \E k \in DOMAIN relay : \E j \in Instances :
    /\ j # relay[k].inst
    /\ relay[k].text = <<"\"">>
    /\ relay[k].raw # JsonPrefix \o relay[k].text \o JsonSuffix
    /\ Delivered(k, j)
    /\ Delivered(k, relay[k].inst)


\* C22: pause and resume directives alternate: at most one resume timer is
\* pending at any time, and it is pending only while the topic is paused.
C22_PauseResumeAlternate ==
  /\ Len(timers) <= 1
  /\ timers # <<>> => paused # {}

\* C23: at most one producer is ever created, and every produceMessage call
\* uses that one.
C23_SingleProducer ==
  /\ nProducers <= 1
  /\ \A c1, c2 \in DOMAIN calls : calls[c1].prod = calls[c2].prod

\* C25: a record with a null value is consumed with no create call, no
\* pause and no timer; the cursor moves past it.
C25_NullValueSkipped ==
  [][(/\ pc = "idle"
      /\ fetched # <<>>
      /\ log[Head(fetched).p][Head(fetched).next + 1].isNull
      /\ <<pc, cur, fetched, cursor, creates>>' # <<pc, cur, fetched, cursor, creates>>)
     => /\ creates' = creates
        /\ store' = store
        /\ paused' = paused
        /\ timers' = timers
        /\ pc' = "idle"
        /\ cursor' = [cursor EXCEPT ![Head(fetched).p] = Head(fetched).next + 1]]_vars

C25_Witness ==
  /\ nFail = 0
  /\ paused = {}
  /\ timers = <<>>
  /\ \E p \in Partitions : \E k \in DOMAIN log[p] :
       /\ log[p][k].isNull
       /\ cursor[p] >= k
       /\ \A n \in DOMAIN creates : ~(creates[n].p = p /\ creates[n].off = k - 1)
       /\ \E n \in DOMAIN creates : creates[n].p = p /\ creates[n].off = k


\* init after httpServer.listen and initListeners, at the await of
\* startMessageConsumer, with one record retained on the topic.
InitStarting ==
  /\ clients = [i \in Instances |-> 1]
  /\ relay = <<>>
  /\ busLog = <<>>
  /\ busQ = [i \in Instances |-> <<>>]
  /\ emitted = [i \in Instances |-> <<>>]
  /\ producer = 0
  /\ nProducers = 0
  /\ calls = <<>>
  /\ log = [p \in Partitions |-> IF p = 0 THEN <<BufValue(<<"a">>)>> ELSE <<>>]
  /\ cursor = [p \in Partitions |-> 0]
  /\ fetched = <<>>
  /\ pc = "starting"
  /\ cur = NoCur
  /\ paused = {}
  /\ timers = <<>>
  /\ store = <<>>
  /\ creates = <<>>
  /\ nFail = 0
  /\ nTomb = 0
  /\ fault = [i \in Instances |-> "ok"]

StartNext ==
  \/ startResolved
  \/ \E i \in Instances : startRejected(i)
  \/ \E i \in Instances, m \in Texts : Submit(i, m)
  \/ \E k \in 1..MaxSubmit : Publish(k)
  \/ \E i \in Instances : onBusMessage(i)
  \/ \E bs \in BatchOrders : fetch(bs)
  \/ eachMessage
  \/ createResolved
  \/ createRejected
  \/ resumeTimer
  \/ Tick

\* Fairness of the bus path alone, as in FairBusSpec.
FairStartSpec ==
  /\ InitStarting
  /\ [][StartNext]_vars
  /\ \A k \in 1..MaxSubmit : WF_vars(Publish(k))
  /\ \A i \in Instances : WF_vars(onBusMessage(i))

\* C21: when the start of the consumer has been rejected, no instance has
\* stopped, and every submission is still published and emitted at every
\* instance.
C21_StartFailureContained ==
  /\ [](pc = "down" => \A i \in Instances : fault[i] = "ok")
  /\ \A k \in 1..MaxSubmit :
       []((pc = "down" /\ k \in DOMAIN relay)
            => <>(\A j \in Instances : Delivered(k, j)))

C21_Witness ==
  /\ pc = "down"
  /\ Len(relay) = MaxSubmit
  /\ \A k \in DOMAIN relay : \A j \in Instances : Delivered(k, j)
  /\ \E k \in DOMAIN relay : relay[k].down
  /\ store = <<>>


\* The bus path with clients coming and going and with traffic on another
\* channel of the same Redis.
ClientNext ==
  \/ \E i \in Instances : Connect(i)
  \/ \E i \in Instances : Disconnect(i)
  \/ \E i \in Instances, m \in Texts : Submit(i, m)
  \/ ForeignPublishElsewhere(Stringify(<<"a">>))
  \/ \E k \in 1..MaxSubmit : Publish(k)
  \/ \E i \in Instances : onBusMessage(i)

ClientSpec == Init /\ [][ClientNext]_vars

\* C24: an instance emits exactly once, the parsed payload, in the step that
\* takes a MESSAGES delivery off its subscriber, and emits in no other step,
\* whatever connects, disconnects or is published on another channel.
C24_EmitOncePerDelivery ==
  [][\A i \in Instances :
       IF /\ busQ[i] # <<>>
          /\ busQ'[i] = Tail(busQ[i])
          /\ Head(busQ[i]).channel = Channel
       THEN emitted'[i] =
              Append(emitted[i],
                     [message |-> Parse(Head(busQ[i]).message).message])
       ELSE emitted'[i] = emitted[i]]_vars

C24_Witness ==
  /\ \E k \in DOMAIN relay :
       relay[k].channel = OtherChannel /\ relay[k].pc = "done"
  /\ \E j \in Instances : \E k \in DOMAIN relay :
       /\ clients[j] = MaxClients
       /\ relay[k].channel = Channel
       /\ relay[k].pc = "done"
       /\ relay[k].inst # j
       /\ clients[relay[k].inst] = 0
       /\ busQ[j] = <<>>
       /\ emitted[j] = <<[message |-> relay[k].text]>>

====
